---- MODULE Spec2Model ----
(***************************************************************************)
(* gulp-lambda-deploy (src/index.js): one plugin instance, from the call   *)
(* of module.exports(params, options) through the writes to its stream,    *)
(* its flush, and the chain of AWS calls the flush starts.  The AWS side   *)
(* (S3 object store, Lambda functions and aliases) is part of the state.   *)
(* Every action is one entry into the plugin's code from the event loop:   *)
(* the constructor, a write, the flush, or the callback of one AWS call    *)
(* together with the promise continuations it runs.                        *)
(***************************************************************************)
EXTENDS Integers, Sequences, FiniteSets, TLC

(***************************************************************************)
(* JavaScript values.  Every value carries its type tag, so that an absent *)
(* property (undefined), an empty string, a zero and a one-element array   *)
(* stay different values, as they are in the program.                      *)
(***************************************************************************)
Undef == [t |-> "undef", v |-> ""]
Str(s) == [t |-> "str", v |-> s]
Num(n) == [t |-> "num", v |-> n]
Bool(b) == [t |-> "bool", v |-> b]
Arr(a) == [t |-> "arr", v |-> a]

\* ToBoolean of JavaScript, as applied by `if (x)`, `!x`, `x || y`, `x && y`.
Truthy(x) ==
  CASE x.t = "undef" -> FALSE
    [] x.t = "str" -> x.v # ""
    [] x.t = "num" -> x.v # 0
    [] x.t = "bool" -> x.v
    [] OTHER -> TRUE

\* a || b
OrElse(a, b) == IF Truthy(a) THEN a ELSE b

DEFAULT_PARAMS == [handler |-> Str("index.handler"), runtime |-> Str("nodejs4.3")]

\* new gutil.PluginError('gulp-lambda-deploy', message)
gulpError(message) == [plugin |-> "gulp-lambda-deploy", message |-> message]

NoError == [plugin |-> "", message |-> ""]

(***************************************************************************)
(* Files (vinyl objects).  A path is the sequence of its characters.       *)
(***************************************************************************)
PathAZip == <<"a", ".", "z", "i", "p">>
PathBZip == <<"b", ".", "z", "i", "p">>
PathATxt == <<"a", ".", "t", "x", "t">>
PathZip == <<"z", "i", "p">>

NoFile == [t |-> "undef", kind |-> "", path |-> <<>>, contents |-> ""]
BufferFile(p, c) == [t |-> "obj", kind |-> "buffer", path |-> p, contents |-> c]
NullFile == [t |-> "obj", kind |-> "null", path |-> PathAZip, contents |-> ""]
StreamFile == [t |-> "obj", kind |-> "stream", path |-> PathAZip, contents |-> "s"]

Files ==
  { NullFile, StreamFile,
    BufferFile(PathAZip, "c1"), BufferFile(PathBZip, "c2"),
    BufferFile(PathATxt, "c1"), BufferFile(PathZip, "c1"),
    BufferFile(PathAZip, "") }

\* path.slice(-4)
SliceLast4(p) == IF Len(p) <= 4 THEN p ELSE SubSeq(p, Len(p) - 3, Len(p))

(***************************************************************************)
(* The arguments of module.exports.                                        *)
(***************************************************************************)
NoS3 == [t |-> "undef", bucket |-> Undef, key |-> Undef]
S3Of(b, k) == [t |-> "obj", bucket |-> b, key |-> k]

S3Space == { NoS3 } \cup { S3Of(b, k) : b \in {Undef, Str("b")}, k \in {Undef, Str("k")} }

NoOptions == [t |-> "undef", region |-> Undef, profile |-> Undef]

OptionsSpace ==
  { NoOptions } \cup
  { [t |-> "obj", region |-> r, profile |-> p] :
      r \in {Undef, Str("us-east-1")}, p \in {Undef, Str("default")} }

GoodOptions == [t |-> "obj", region |-> Str("us-east-1"), profile |-> Str("default")]

\* The properties of params the plugin reads.
ParamsOf(name, role, hd, rt, mem, desc, tmo, sn, sg, s3, publish, alias) ==
  [t |-> "obj", name |-> name, role |-> role, handler |-> hd,
   runtime |-> rt, memory |-> mem, description |-> desc,
   timeout |-> tmo, subnets |-> sn, securityGroups |-> sg,
   s3 |-> s3, publish |-> publish, alias |-> alias, file |-> NoFile]

NoParams ==
  [ParamsOf(Undef, Undef, Undef, Undef, Undef, Undef, Undef, Undef, Undef, NoS3,
            Undef, Undef) EXCEPT !.t = "undef"]

PublishSpace == {Undef, Bool(FALSE), Bool(TRUE)}
AliasSpace == {Undef, Str("live")}

\* Deployment specs whose optional configuration is all absent or all given.
ParamsSpace ==
  { NoParams } \cup
  { ParamsOf(n, r, o[1], o[2], o[3], o[4], o[5], o[6], o[7], s, p, a) :
      n \in {Undef, Str("f")}, r \in {Undef, Str("r")},
      o \in { <<Undef, Undef, Undef, Undef, Undef, Undef, Undef>>,
              <<Str("h"), Str("rt"), Num(256), Str("d"), Num(9), Str("sn"),
                Arr(<<"sg">>)>> },
      s \in S3Space, p \in PublishSpace, a \in AliasSpace }

\* Valid deployment specs with every combination of the optional settings,
\* a description given as the empty string and an empty list included.
ConfigParamsSpace ==
  { ParamsOf(Str("f"), Str("r"), h, rt, m, d, tm, sn, sg, NoS3, Bool(TRUE), Undef) :
      h \in {Undef, Str("h")}, rt \in {Undef, Str("rt")},
      m \in {Undef, Num(256)}, d \in {Undef, Str(""), Str("d")},
      tm \in {Undef, Num(9)},
      sn \in {Undef, Str("sn"), Arr(<<"sn">>)},
      sg \in {Undef, Str("sg"), Arr(<<>>)} }

(***************************************************************************)
(* The AWS account: Lambda functions in listing order, the aliases of the  *)
(* functions, and the objects of the staging bucket.                       *)
(***************************************************************************)
FnNames == {"f", "F", "g"}

\* listFunctions returns at most this many functions per call (one page).
PageSize == 2

OldConfig ==
  [Role |-> Str("r0"), Handler |-> Str("h0"), Runtime |-> Str("rt0"),
   MemorySize |-> Num(512), Description |-> Str("d0"), Timeout |-> Num(30),
   VpcConfig |-> [t |-> "obj", SubnetIds |-> <<"sn0">>, SecurityGroupIds |-> <<"sg0">>]]

NoVpc == [t |-> "undef", SubnetIds |-> <<>>, SecurityGroupIds |-> <<>>]

OldCode == [S3Bucket |-> Undef, S3Key |-> Undef, ZipFile |-> Str("c0")]

\* A function that exists before the run: one published version.
OldFunction(n) ==
  [FunctionName |-> n, Config |-> OldConfig, Code |-> OldCode, Versions |-> 1]

RECURSIVE NoDupSeqs(_)
NoDupSeqs(S) ==
  IF S = {} THEN { <<>> }
  ELSE { <<>> } \cup
       UNION { { <<OldFunction(x)>> \o s : s \in NoDupSeqs(S \ {x}) } : x \in S }

FunctionLists == NoDupSeqs(FnNames)

OldAlias(n) == [FunctionName |-> n, Name |-> "live", FunctionVersion |-> Str("1")]

VARIABLES
  params,      \* the params object given to module.exports (params.file included)
  options,     \* the options object given to module.exports
  pc,          \* where the plugin instance is
  thrown,      \* the error thrown by module.exports or by transform
  calls,       \* the AWS calls issued so far, each with its outcome
  hasFunction, \* what hasLambdaFunction resolved with, undefined before it does
  version,     \* the version argument of upsertAlias
  cbs,         \* the calls of flush's callback cb, in order
  pushed,      \* the files pushed downstream (stream.push)
  received,    \* params.file when flush started
  lastWritten, \* the last file with contents written to the stream
  prevWritten, \* the file with contents written before lastWritten
  other,       \* a second plugin instance built from the same params object
  lambdaFns,   \* AWS: the Lambda functions, in listing order
  lambdaFns0,  \* AWS: the Lambda functions when the plugin was constructed
  aliases,     \* AWS: the aliases
  aliases0,    \* AWS: the aliases when the plugin was constructed
  s3store      \* AWS: the objects in S3

vars ==
  <<params, options, pc, thrown, calls, hasFunction, version, cbs, pushed, received,
    lastWritten, prevWritten, other, lambdaFns, lambdaFns0, aliases, aliases0, s3store>>

aws == <<lambdaFns, aliases, s3store>>

RemoteInit ==
  /\ lambdaFns \in FunctionLists
  /\ lambdaFns0 = lambdaFns
  /\ aliases \in
       { {} } \cup { { OldAlias(lambdaFns[i].FunctionName) } : i \in 1..Len(lambdaFns) }
  /\ aliases0 = aliases
  /\ s3store = {}

\* What a plugin instance holds of its own: the value of pc, thrown, calls,
\* hasFunction, version, cbs, pushed, received, lastWritten, prevWritten,
\* lambdaFns0 and aliases0 for it.
NewInstance(fns, als) ==
  [pc |-> "new", thrown |-> NoError, calls |-> <<>>, hasFunction |-> Undef,
   version |-> Undef, cbs |-> <<>>, pushed |-> <<>>, received |-> NoFile,
   lastWritten |-> NoFile, prevWritten |-> NoFile, lambdaFns0 |-> fns,
   aliases0 |-> als]

LocalInit ==
  /\ pc = "new"
  /\ thrown = NoError
  /\ calls = <<>>
  /\ hasFunction = Undef
  /\ version = Undef
  /\ cbs = <<>>
  /\ pushed = <<>>
  /\ received = NoFile
  /\ lastWritten = NoFile
  /\ prevWritten = NoFile
  /\ other = NewInstance(lambdaFns, aliases)

Init ==
  /\ params \in ParamsSpace
  /\ options \in OptionsSpace
  /\ RemoteInit
  /\ LocalInit


(***************************************************************************)
(* The requests the plugin builds.  A property the code does not set is    *)
(* undefined in the request.                                               *)
(***************************************************************************)
HasS3(p) == p.s3.t = "obj"

\* typeof x === 'string' ? [x] : x
AsList(x) == IF x.t = "str" THEN <<x.v>> ELSE x.v

VpcConfigOf(p) ==
  IF Truthy(p.subnets) /\ Truthy(p.securityGroups)
  THEN [t |-> "obj", SubnetIds |-> AsList(p.subnets),
        SecurityGroupIds |-> AsList(p.securityGroups)]
  ELSE NoVpc

IfGiven(x) == IF Truthy(x) THEN x ELSE Undef

\* A code source that names the staged object and carries the bytes as well.
CodeOf_both(p) ==
  IF HasS3(p)
  THEN [S3Bucket |-> p.s3.bucket, S3Key |-> p.s3.key, ZipFile |-> Str(p.file.contents)]
  ELSE [S3Bucket |-> Undef, S3Key |-> Undef, ZipFile |-> Str(p.file.contents)]

CodeOf(p) ==
  IF HasS3(p)
  THEN [S3Bucket |-> p.s3.bucket, S3Key |-> p.s3.key, ZipFile |-> Undef]
  ELSE [S3Bucket |-> Undef, S3Key |-> Undef, ZipFile |-> Str(p.file.contents)]

s3uploadParams(p) ==
  [Bucket |-> p.s3.bucket, Key |-> p.s3.key, Body |-> Str(p.file.contents)]

updateFunctionCodeParams(p) ==
  [FunctionName |-> p.name, Publish |-> p.publish, S3Bucket |-> CodeOf(p).S3Bucket,
   S3Key |-> CodeOf(p).S3Key, ZipFile |-> CodeOf(p).ZipFile]

updateFunctionConfigurationParams(p) ==
  [FunctionName |-> p.name, Role |-> p.role,
   Handler |-> OrElse(p.handler, DEFAULT_PARAMS.handler),
   Runtime |-> OrElse(p.runtime, DEFAULT_PARAMS.runtime),
   MemorySize |-> IfGiven(p.memory), Description |-> IfGiven(p.description),
   Timeout |-> IfGiven(p.timeout), VpcConfig |-> VpcConfigOf(p)]

createFunctionParams(p) ==
  [Code |-> CodeOf(p), FunctionName |-> p.name,
   Handler |-> OrElse(p.handler, DEFAULT_PARAMS.handler),
   Runtime |-> OrElse(p.runtime, DEFAULT_PARAMS.runtime),
   Role |-> p.role, Publish |-> p.publish,
   MemorySize |-> IfGiven(p.memory), Description |-> IfGiven(p.description),
   Timeout |-> IfGiven(p.timeout), VpcConfig |-> VpcConfigOf(p)]

getAliasParams(p) == [FunctionName |-> p.name, Name |-> p.alias]

\* An alias request that names the unpublished version, whatever version it is given.
aliasParams_latest(ver, p) ==
  [FunctionName |-> p.name, FunctionVersion |-> Str("$LATEST"), Name |-> p.alias]

aliasParams(ver, p) ==
  [FunctionName |-> p.name, FunctionVersion |-> ver, Name |-> p.alias]

RequestOf(op, ver, p) ==
  CASE op = "putObject" -> s3uploadParams(p)
    [] op = "listFunctions" -> [none |-> TRUE]
    [] op = "updateFunctionConfiguration" -> updateFunctionConfigurationParams(p)
    [] op = "updateFunctionCode" -> updateFunctionCodeParams(p)
    [] op = "createFunction" -> createFunctionParams(p)
    [] op = "getAlias" -> getAliasParams(p)
    [] op = "createAlias" -> aliasParams(ver, p)
    [] op = "updateAlias" -> aliasParams(ver, p)

(***************************************************************************)
(* The promise chain of flush: what follows each settled call.  The result *)
(* is the next AWS operation, "done" (done()) or "fail" (done(err)).       *)
(***************************************************************************)
\* A chain that starts at the existence lookup, without the upload.
flushStart_noUpload(p) == "listFunctions"

flushStart(p) == IF HasS3(p) THEN "putObject" ELSE "listFunctions"

\* A chain that uploads again when the upload has failed.
afterS3upload_retry(ok) == IF ok THEN "listFunctions" ELSE "putObject"

afterS3upload(ok) == IF ok THEN "listFunctions" ELSE "fail"

\* A chain with the two branches the wrong way round.
afterHasLambdaFunction_swapped(ok, has) ==
  IF ~ok THEN "fail"
  ELSE IF has THEN "createFunction" ELSE "updateFunctionConfiguration"

afterHasLambdaFunction(ok, has) ==
  IF ~ok THEN "fail"
  ELSE IF has THEN "updateFunctionConfiguration" ELSE "createFunction"

\* A chain that goes on to the code update whatever the configuration update did.
afterUpdateFunctionConfiguration_always(ok) == "updateFunctionCode"

afterUpdateFunctionConfiguration(ok) == IF ok THEN "updateFunctionCode" ELSE "fail"

\* A chain that goes on to the alias whatever the create or the code update did.
afterUpsertFunction_ignoreFailure(ok, p) == IF Truthy(p.alias) THEN "getAlias" ELSE "done"

afterUpsertFunction(ok, p) ==
  IF ~ok THEN "fail" ELSE IF Truthy(p.alias) THEN "getAlias" ELSE "done"

\* getAlias rejects on an error other than ResourceNotFoundException.
getAliasRejects(err) == err.code # "" /\ err.code # "ResourceNotFoundException"

\* An upsert that creates the alias it found and updates the one it did not find.
afterGetAlias_swapped(rejected, found) ==
  IF rejected THEN "fail" ELSE IF found THEN "createAlias" ELSE "updateAlias"

afterGetAlias(rejected, found) ==
  IF rejected THEN "fail" ELSE IF ~found THEN "createAlias" ELSE "updateAlias"

\* A chain that ends in done() whatever the alias write did.
afterAliasWrite_always(ok) == "done"

afterAliasWrite(ok) == IF ok THEN "done" ELSE "fail"

\* The loop of hasLambdaFunction over data.Functions, from index i on.
RECURSIVE ScanFunctions(_, _, _)
ScanFunctions(functions, i, targetFunction) ==
  IF i > Len(functions) THEN FALSE
  ELSE IF functions[i].FunctionName = targetFunction THEN TRUE
  ELSE ScanFunctions(functions, i + 1, targetFunction)


(***************************************************************************)
(* AWS.  Each operation has a set of outcomes: the error and the data its  *)
(* callback is given, and the account's state after it.  A failed call     *)
(* leaves the account as it was.                                           *)
(***************************************************************************)
NoErr == [code |-> "", message |-> ""]
ServiceError == [code |-> "ServiceException", message |-> "service failure"]
NotFoundError == [code |-> "ResourceNotFoundException", message |-> "not found"]
ConflictError == [code |-> "ResourceConflictException", message |-> "already exists"]

IsUndef(x) == x.t = "undef"

IndexOfFunction(fns, name) ==
  IF \E i \in 1..Len(fns) : fns[i].FunctionName = name
  THEN CHOOSE i \in 1..Len(fns) : fns[i].FunctionName = name
  ELSE 0

\* The data of a callback: null, or the response object.
NoData == [t |-> "undef", Version |-> Undef]
Data(ver) == [t |-> "obj", Version |-> ver]

Unchanged(err, data) ==
  [err |-> err, data |-> data, fns |-> lambdaFns, als |-> aliases, obj |-> s3store]

putObjectOutcomes(req) ==
  { Unchanged(ServiceError, NoData),
    [Unchanged(NoErr, Data(Undef)) EXCEPT
       !.obj = { o \in s3store : o.Bucket # req.Bucket \/ o.Key # req.Key } \cup { req }] }

\* One page of the listing: the first PageSize functions.
FirstPage(fns) ==
  [i \in 1..(IF Len(fns) < PageSize THEN Len(fns) ELSE PageSize) |->
     [FunctionName |-> Str(fns[i].FunctionName)]]

listFunctionsOutcomes(req) ==
  { Unchanged(ServiceError, <<>>), Unchanged(NoErr, FirstPage(lambdaFns)) }

OrDefault(x, d) == IF IsUndef(x) THEN d ELSE x

CreatedFunction(req) ==
  [FunctionName |-> req.FunctionName.v,
   Config |-> [Role |-> req.Role, Handler |-> req.Handler, Runtime |-> req.Runtime,
               MemorySize |-> OrDefault(req.MemorySize, Num(128)),
               Description |-> OrDefault(req.Description, Str("")),
               Timeout |-> OrDefault(req.Timeout, Num(3)),
               VpcConfig |-> req.VpcConfig],
   Code |-> req.Code,
   Versions |-> IF Truthy(req.Publish) THEN 1 ELSE 0]

VersionOf(fn, publish) == IF Truthy(publish) THEN Str(ToString(fn.Versions)) ELSE Str("$LATEST")

createFunctionOutcomes(req) ==
  IF IndexOfFunction(lambdaFns, req.FunctionName.v) # 0
  THEN { Unchanged(ConflictError, NoData) }
  ELSE { Unchanged(ServiceError, NoData),
         [Unchanged(NoErr, Data(VersionOf(CreatedFunction(req), req.Publish)))
            EXCEPT !.fns = Append(lambdaFns, CreatedFunction(req))] }

\* The configuration after an update: a setting the request leaves out stays.
MergedConfig(old, req) ==
  [Role |-> OrDefault(req.Role, old.Role),
   Handler |-> OrDefault(req.Handler, old.Handler),
   Runtime |-> OrDefault(req.Runtime, old.Runtime),
   MemorySize |-> OrDefault(req.MemorySize, old.MemorySize),
   Description |-> OrDefault(req.Description, old.Description),
   Timeout |-> OrDefault(req.Timeout, old.Timeout),
   VpcConfig |-> OrDefault(req.VpcConfig, old.VpcConfig)]

updateFunctionConfigurationOutcomes(req) ==
  LET i == IndexOfFunction(lambdaFns, req.FunctionName.v) IN
  IF i = 0 THEN { Unchanged(NotFoundError, NoData) }
  ELSE { Unchanged(ServiceError, NoData),
         [Unchanged(NoErr, Data(Undef)) EXCEPT
            !.fns = [lambdaFns EXCEPT ![i].Config = MergedConfig(@, req)]] }

UpdatedCode(fn, req) ==
  [fn EXCEPT !.Code = [S3Bucket |-> req.S3Bucket, S3Key |-> req.S3Key,
                       ZipFile |-> req.ZipFile],
             !.Versions = IF Truthy(req.Publish) THEN @ + 1 ELSE @]

updateFunctionCodeOutcomes(req) ==
  LET i == IndexOfFunction(lambdaFns, req.FunctionName.v) IN
  IF i = 0 THEN { Unchanged(NotFoundError, NoData) }
  ELSE { Unchanged(ServiceError, NoData),
         [Unchanged(NoErr, Data(VersionOf(UpdatedCode(lambdaFns[i], req), req.Publish)))
            EXCEPT !.fns = [lambdaFns EXCEPT ![i] = UpdatedCode(@, req)]] }

AliasesOf(req) ==
  { a \in aliases : a.FunctionName = req.FunctionName.v /\ a.Name = req.Name.v }

getAliasOutcomes(req) ==
  { Unchanged(ServiceError, NoData) } \cup
  ( IF AliasesOf(req) = {}
    THEN { Unchanged(NotFoundError, NoData) }
    ELSE { Unchanged(NoErr, Data(a.FunctionVersion)) : a \in AliasesOf(req) } )

AliasOf(req) ==
  [FunctionName |-> req.FunctionName.v, Name |-> req.Name.v,
   FunctionVersion |-> req.FunctionVersion]

createAliasOutcomes(req) ==
  IF AliasesOf(req) # {} THEN { Unchanged(ConflictError, NoData) }
  ELSE IF IndexOfFunction(lambdaFns, req.FunctionName.v) = 0
  THEN { Unchanged(NotFoundError, NoData) }
  ELSE { Unchanged(ServiceError, NoData),
         [Unchanged(NoErr, Data(Undef)) EXCEPT !.als = aliases \cup { AliasOf(req) }] }

updateAliasOutcomes(req) ==
  IF AliasesOf(req) = {} THEN { Unchanged(NotFoundError, NoData) }
  ELSE { Unchanged(ServiceError, NoData),
         [Unchanged(NoErr, Data(Undef)) EXCEPT
            !.als = (aliases \ AliasesOf(req)) \cup { AliasOf(req) }] }


(***************************************************************************)
(* The plugin.                                                             *)
(***************************************************************************)
\* A validation without the check of alias against publish.
ValidationError_noAliasCheck(p, o) ==
  IF p.t = "undef" THEN "No parameters provided"
  ELSE IF ~Truthy(p.name) THEN "No Lambda function name provided"
  ELSE IF ~Truthy(p.role) THEN "No Lambda role provided"
  ELSE IF o.t = "undef" THEN "No AWS options provided"
  ELSE IF ~Truthy(o.region) THEN "No AWS region provided"
  ELSE IF ~Truthy(o.profile) THEN "No AWS profile provided"
  ELSE IF HasS3(p) /\ ~Truthy(p.s3.bucket)
    THEN "If uploading via S3, a bucket must be provided"
  ELSE IF HasS3(p) /\ ~Truthy(p.s3.key)
    THEN "If uploading via S3, a key must be provided"
  ELSE ""

\* The message of the error module.exports throws, "" when it throws none.
ValidationError(p, o) ==
  IF p.t = "undef" THEN "No parameters provided"
  ELSE IF ~Truthy(p.name) THEN "No Lambda function name provided"
  ELSE IF ~Truthy(p.role) THEN "No Lambda role provided"
  ELSE IF o.t = "undef" THEN "No AWS options provided"
  ELSE IF ~Truthy(o.region) THEN "No AWS region provided"
  ELSE IF ~Truthy(o.profile) THEN "No AWS profile provided"
  ELSE IF HasS3(p) /\ ~Truthy(p.s3.bucket)
    THEN "If uploading via S3, a bucket must be provided"
  ELSE IF HasS3(p) /\ ~Truthy(p.s3.key)
    THEN "If uploading via S3, a key must be provided"
  ELSE IF Truthy(p.alias) /\ ~Truthy(p.publish)
    THEN "An alias was provided but 'publish' was 'false'."
  ELSE ""

\* module.exports(params, options)
Construct ==
  /\ pc = "new"
  /\ IF ValidationError(params, options) # ""
     THEN /\ thrown' = gulpError(ValidationError(params, options))
          /\ pc' = "thrown"
     ELSE /\ thrown' = thrown
          /\ pc' = "ready"
  /\ lambdaFns0' = lambdaFns
  /\ aliases0' = aliases
  /\ UNCHANGED <<params, options, calls, hasFunction, version, cbs, pushed, received>>
  /\ UNCHANGED <<lastWritten, prevWritten, other, lambdaFns, aliases, s3store>>

\* A transform that keeps the first file it is given.
Transform_first(file) ==
  /\ pc = "ready"
  /\ IF file.kind = "null"
     THEN UNCHANGED <<params, thrown, pc>>
     ELSE IF file.kind = "stream"
     THEN /\ thrown' = gulpError("Stream content is not supported")
          /\ pc' = "thrown"
          /\ params' = params
     ELSE /\ params' = IF params.file.t = "undef" THEN [params EXCEPT !.file = file]
                       ELSE params
          /\ UNCHANGED <<thrown, pc>>
  /\ IF file.kind = "null"
     THEN UNCHANGED <<lastWritten, prevWritten>>
     ELSE lastWritten' = file /\ prevWritten' = lastWritten
  /\ UNCHANGED <<options, calls, hasFunction, version, cbs, pushed, received, other>>
  /\ UNCHANGED <<lambdaFns, lambdaFns0, aliases, aliases0, s3store>>

\* transform(file, enc, cb)
Transform(file) ==
  /\ pc = "ready"
  /\ IF file.kind = "null"
     THEN UNCHANGED <<params, thrown, pc>>
     ELSE IF file.kind = "stream"
     THEN /\ thrown' = gulpError("Stream content is not supported")
          /\ pc' = "thrown"
          /\ params' = params
     ELSE /\ params' = [params EXCEPT !.file = file]
          /\ UNCHANGED <<thrown, pc>>
  /\ IF file.kind = "null"
     THEN UNCHANGED <<lastWritten, prevWritten>>
     ELSE lastWritten' = file /\ prevWritten' = lastWritten
  /\ UNCHANGED <<options, calls, hasFunction, version, cbs, pushed, received, other>>
  /\ UNCHANGED <<lambdaFns, lambdaFns0, aliases, aliases0, s3store>>

Call(op, ver, p) == [op |-> op, req |-> RequestOf(op, ver, p), status |-> "pending",
                     code |-> "", ver |-> Undef]

\* A done that pushes the file before it looks at err.
donePush_always(err, file) == <<file>>

\* done(err): what it pushes downstream, and what it gives cb.
donePush(err, file) == IF err.code # "" THEN <<>> ELSE <<file>>

doneCb(err) == IF err.code # "" THEN gulpError(err.message) ELSE NoError

\* What the end of a link of the chain does: the next call, done() or done(err).
Proceed(next, log, err, ver) ==
  IF next \in {"fail", "done"}
  THEN /\ pushed' = pushed \o donePush(IF next = "fail" THEN err ELSE NoErr, params.file)
       /\ cbs' = Append(cbs, doneCb(IF next = "fail" THEN err ELSE NoErr))
       /\ pc' = "done"
       /\ calls' = log
       /\ UNCHANGED version
  ELSE /\ calls' = Append(log, Call(next, ver, params))
       /\ pc' = next
       /\ version' = ver
       /\ UNCHANGED <<cbs, pushed>>

\* flush(cb)
Flush ==
  /\ pc = "ready"
  /\ received' = params.file
  /\ IF params.file.t = "undef"
     THEN /\ cbs' = Append(cbs, gulpError("No code provided"))
          /\ pc' = "done"
          /\ UNCHANGED <<calls, pushed, version>>
     ELSE IF SliceLast4(params.file.path) # <<".", "z", "i", "p">>
     THEN /\ cbs' = Append(cbs, gulpError("Given file is not a zip"))
          /\ pc' = "done"
          /\ UNCHANGED <<calls, pushed, version>>
     ELSE Proceed(flushStart(params), calls, NoErr, version)
  /\ UNCHANGED <<params, options, thrown, hasFunction, lastWritten, prevWritten, other>>
  /\ UNCHANGED <<lambdaFns, lambdaFns0, aliases, aliases0, s3store>>

LastCall == calls[Len(calls)]

\* The log with the outstanding call settled by outcome o.
Settled(o) ==
  [calls EXCEPT ![Len(calls)] =
     [@ EXCEPT !.status = IF o.err.code = "" THEN "ok" ELSE "err",
               !.code = o.err.code, !.ver = o.data.Version]]

SettledList(o) ==
  [calls EXCEPT ![Len(calls)] =
     [@ EXCEPT !.status = IF o.err.code = "" THEN "ok" ELSE "err",
               !.code = o.err.code]]

\* AWS answers: the account changes as the outcome says.
Answer(o) ==
  /\ lambdaFns' = o.fns
  /\ aliases' = o.als
  /\ s3store' = o.obj
  /\ UNCHANGED <<params, options, thrown, received, lambdaFns0, aliases0>>
  /\ UNCHANGED <<lastWritten, prevWritten, other>>

\* the callback of s3.putObject
PutObjectReturn ==
  /\ pc = "putObject"
  /\ \E o \in putObjectOutcomes(LastCall.req) :
       /\ Answer(o)
       /\ UNCHANGED hasFunction
       /\ Proceed(afterS3upload(o.err.code = ""), Settled(o), o.err, version)

\* A callback of lambda.listFunctions that returns on an error without
\* rejecting: the promise of hasLambdaFunction then never settles.
ListFunctionsReturn_dropsError ==
  /\ pc = "listFunctions"
  /\ \E o \in listFunctionsOutcomes(LastCall.req) :
       /\ Answer(o)
       /\ hasFunction' = IF o.err.code = "" THEN Bool(ScanFunctions(o.data, 1, params.name))
                         ELSE hasFunction
       /\ IF o.err.code = ""
          THEN Proceed(afterHasLambdaFunction(TRUE, ScanFunctions(o.data, 1, params.name)),
                       SettledList(o), o.err, version)
          ELSE /\ calls' = SettledList(o)
               /\ pc' = "hung"
               /\ UNCHANGED <<version, cbs, pushed>>

\* the callback of lambda.listFunctions
ListFunctionsReturn ==
  /\ pc = "listFunctions"
  /\ \E o \in listFunctionsOutcomes(LastCall.req) :
       /\ Answer(o)
       /\ hasFunction' = IF o.err.code = "" THEN Bool(ScanFunctions(o.data, 1, params.name))
                         ELSE hasFunction
       /\ Proceed(afterHasLambdaFunction(o.err.code = "",
                                         ScanFunctions(o.data, 1, params.name)),
                  SettledList(o), o.err, version)

\* the callback of lambda.updateFunctionConfiguration
UpdateFunctionConfigurationReturn ==
  /\ pc = "updateFunctionConfiguration"
  /\ \E o \in updateFunctionConfigurationOutcomes(LastCall.req) :
       /\ Answer(o)
       /\ UNCHANGED hasFunction
       /\ Proceed(afterUpdateFunctionConfiguration(o.err.code = ""), Settled(o),
                  o.err, version)

\* the callback of lambda.updateFunctionCode
UpdateFunctionCodeReturn ==
  /\ pc = "updateFunctionCode"
  /\ \E o \in updateFunctionCodeOutcomes(LastCall.req) :
       /\ Answer(o)
       /\ UNCHANGED hasFunction
       /\ Proceed(afterUpsertFunction(o.err.code = "", params), Settled(o), o.err,
                  o.data.Version)

\* the callback of lambda.createFunction
CreateFunctionReturn ==
  /\ pc = "createFunction"
  /\ \E o \in createFunctionOutcomes(LastCall.req) :
       /\ Answer(o)
       /\ UNCHANGED hasFunction
       /\ Proceed(afterUpsertFunction(o.err.code = "", params), Settled(o), o.err,
                  o.data.Version)

\* the callback of lambda.getAlias
GetAliasReturn ==
  /\ pc = "getAlias"
  /\ \E o \in getAliasOutcomes(LastCall.req) :
       /\ Answer(o)
       /\ UNCHANGED hasFunction
       /\ Proceed(afterGetAlias(getAliasRejects(o.err), o.data.t = "obj"),
                  Settled(o), o.err, version)

\* the callback of lambda.createAlias
CreateAliasReturn ==
  /\ pc = "createAlias"
  /\ \E o \in createAliasOutcomes(LastCall.req) :
       /\ Answer(o)
       /\ UNCHANGED hasFunction
       /\ Proceed(afterAliasWrite(o.err.code = ""), Settled(o), o.err, version)

\* the callback of lambda.updateAlias
UpdateAliasReturn ==
  /\ pc = "updateAlias"
  /\ \E o \in updateAliasOutcomes(LastCall.req) :
       /\ Answer(o)
       /\ UNCHANGED hasFunction
       /\ Proceed(afterAliasWrite(o.err.code = ""), Settled(o), o.err, version)

Write == \E file \in Files : Transform(file)

Next ==
  \/ Construct
  \/ Write
  \/ Flush
  \/ PutObjectReturn
  \/ ListFunctionsReturn
  \/ UpdateFunctionConfigurationReturn
  \/ UpdateFunctionCodeReturn
  \/ CreateFunctionReturn
  \/ GetAliasReturn
  \/ CreateAliasReturn
  \/ UpdateAliasReturn

Spec == Init /\ [][Next]_vars

\* Every AWS call that has been issued is answered: the callback of the
\* outstanding call is eventually run.
Returns ==
  /\ WF_vars(PutObjectReturn)
  /\ WF_vars(ListFunctionsReturn)
  /\ WF_vars(UpdateFunctionConfigurationReturn)
  /\ WF_vars(UpdateFunctionCodeReturn)
  /\ WF_vars(CreateFunctionReturn)
  /\ WF_vars(GetAliasReturn)
  /\ WF_vars(CreateAliasReturn)
  /\ WF_vars(UpdateAliasReturn)

SpecLive == Init /\ [][Next]_vars /\ Returns

\* The event loop turns to the other plugin instance: its handlers are the
\* ones that run from here on.  Both instances were built from the one params
\* object, and both talk to the one account.
Switch ==
  /\ other' = [pc |-> pc, thrown |-> thrown, calls |-> calls,
               hasFunction |-> hasFunction, version |-> version, cbs |-> cbs,
               pushed |-> pushed, received |-> received, lastWritten |-> lastWritten,
               prevWritten |-> prevWritten, lambdaFns0 |-> lambdaFns0,
               aliases0 |-> aliases0]
  /\ pc' = other.pc
  /\ thrown' = other.thrown
  /\ calls' = other.calls
  /\ hasFunction' = other.hasFunction
  /\ version' = other.version
  /\ cbs' = other.cbs
  /\ pushed' = other.pushed
  /\ received' = other.received
  /\ lastWritten' = other.lastWritten
  /\ prevWritten' = other.prevWritten
  /\ lambdaFns0' = other.lambdaFns0
  /\ aliases0' = other.aliases0
  /\ UNCHANGED <<params, options, lambdaFns, aliases, s3store>>

\* Valid deployment specs, staged or not, with an alias or without.
TwoParamsSpace ==
  { ParamsOf(Str("f"), Str("r"), Undef, Undef, Undef, Undef, Undef, Undef, Undef, s, pa[1], pa[2]) :
      s \in {NoS3, S3Of(Str("b"), Str("k"))},
      pa \in { <<Undef, Undef>>, <<Bool(TRUE), Str("live")>> } }

\* The files the two instances are given: two archives.
TwoFiles == { BufferFile(PathAZip, "c1"), BufferFile(PathBZip, "c2") }

WriteTwo == \E file \in TwoFiles : Transform(file)

\* Two plugin instances built from one params object, run interleaved against
\* an account that does not hold the target function.
InitTwo ==
  /\ params \in TwoParamsSpace
  /\ options = GoodOptions
  /\ lambdaFns \in { <<>>, <<OldFunction("F")>> }
  /\ lambdaFns0 = lambdaFns
  /\ aliases = {}
  /\ aliases0 = aliases
  /\ s3store = {}
  /\ LocalInit

NextTwo ==
  \/ Construct
  \/ WriteTwo
  \/ Flush
  \/ PutObjectReturn
  \/ ListFunctionsReturn
  \/ UpdateFunctionConfigurationReturn
  \/ UpdateFunctionCodeReturn
  \/ CreateFunctionReturn
  \/ GetAliasReturn
  \/ CreateAliasReturn
  \/ UpdateAliasReturn
  \/ Switch

SpecTwo == InitTwo /\ [][NextTwo]_vars

\* The second instance is built and run when the run of the first has ended.
Handover == pc = "done" /\ other.pc = "new" /\ Switch

\* Two plugin instances built from one params object, run one after the other
\* against an account that does not hold the target function.
\* The same specs, and two with optional settings: all given, and a description
\* given as the empty string.
SeqParamsSpace ==
  TwoParamsSpace \cup
  { ParamsOf(Str("f"), Str("r"), Str("h"), Str("rt"), Num(256), d, Num(9), Str("sn"),
             Arr(<<"sg">>), NoS3, Bool(TRUE), Undef) : d \in {Str("d"), Str("")} }

InitSeq ==
  /\ params \in SeqParamsSpace
  /\ options = GoodOptions
  /\ lambdaFns \in { <<>>, <<OldFunction("F")>>, <<OldFunction("F"), OldFunction("g")>> }
  /\ lambdaFns0 = lambdaFns
  /\ aliases = {}
  /\ aliases0 = aliases
  /\ s3store = {}
  /\ LocalInit

NextSeq == Next \/ Handover

SpecSeq == InitSeq /\ [][NextSeq]_vars

\* The same plugin, given every combination of the optional settings, against
\* an account that holds at most the target function.
StagedAliasParams ==
  ParamsOf(Str("f"), Str("r"), Undef, Undef, Undef, Undef, Undef, Undef, Undef,
           S3Of(Str("b"), Str("k")), Bool(TRUE), Str("live"))

InitConfig ==
  /\ params \in ConfigParamsSpace \cup { StagedAliasParams }
  /\ options = GoodOptions
  /\ lambdaFns \in { <<>>, <<OldFunction("f")>> }
  /\ lambdaFns0 = lambdaFns
  /\ aliases \in { {} } \cup { { OldAlias(lambdaFns[i].FunctionName) } : i \in 1..Len(lambdaFns) }
  /\ aliases0 = aliases
  /\ s3store = {}
  /\ LocalInit

SpecConfig == InitConfig /\ [][Next]_vars


(***************************************************************************)
(* Properties.                                                             *)
(***************************************************************************)
CallsOf(op) == { i \in 1..Len(calls) : calls[i].op = op }

Issued(op) == CallsOf(op) # {}

IsNotFound(c) == c.op = "getAlias" /\ c.code = "ResourceNotFoundException"

\* A call that failed; an alias lookup that found no alias has not failed.
Failed(c) == c.status = "err" /\ ~IsNotFound(c)

\* C1: when the existence lookup reports the function present, the configuration
\* update is issued, and the code update is issued only directly after the
\* configuration update has returned successfully; after a failed configuration
\* update no code update is issued.
C1_UpdateOrdering ==
  /\ hasFunction = Bool(TRUE) => Issued("updateFunctionConfiguration")
  /\ \A i \in CallsOf("updateFunctionCode") :
       /\ hasFunction = Bool(TRUE)
       /\ i > 1
       /\ calls[i - 1].op = "updateFunctionConfiguration"
       /\ calls[i - 1].status = "ok"
  /\ \A i \in CallsOf("updateFunctionConfiguration") :
       calls[i].status = "err" => ~Issued("updateFunctionCode")

C1_Witness ==
  /\ hasFunction = Bool(TRUE)
  /\ Issued("updateFunctionCode")
  /\ pc = "done"


\* The operations that may directly follow operation op in a run.
Successors(op) ==
  CASE op = "putObject" -> {"listFunctions"}
    [] op = "listFunctions" -> {"createFunction", "updateFunctionConfiguration"}
    [] op = "updateFunctionConfiguration" -> {"updateFunctionCode"}
    [] op = "updateFunctionCode" -> {"getAlias"}
    [] op = "createFunction" -> {"getAlias"}
    [] op = "getAlias" -> {"createAlias", "updateAlias"}
    [] OTHER -> {}

AliasOps == {"getAlias", "createAlias", "updateAlias"}

\* C2: the calls of a run follow the order putObject (only if s3 is configured),
\* listFunctions, createFunction or updateFunctionConfiguration then
\* updateFunctionCode, getAlias then createAlias or updateAlias (only if an alias
\* is declared); a call is issued only once the call before it has returned
\* successfully (for the alias write: once the lookup has answered found or
\* not-found), so only the last call issued can be outstanding.
C2_StageOrdering ==
  /\ pc \in {"new", "thrown", "ready"} => calls = <<>>
  /\ calls # <<>> =>
       calls[1].op = (IF HasS3(params) THEN "putObject" ELSE "listFunctions")
  /\ \A i \in 1..Len(calls) :
       /\ calls[i].op = "putObject" => HasS3(params) /\ i = 1
       /\ calls[i].op \in AliasOps => Truthy(params.alias)
       /\ calls[i].status = "pending" => i = Len(calls) /\ pc = calls[i].op
       /\ i > 1 =>
            /\ calls[i].op \in Successors(calls[i - 1].op)
            /\ \/ calls[i - 1].status = "ok"
               \/ IsNotFound(calls[i - 1]) /\ calls[i].op = "createAlias"
  /\ \A i \in CallsOf("listFunctions") :
       HasS3(params) => i = 2 /\ calls[1].op = "putObject" /\ calls[1].status = "ok"

C2_Witness ==
  /\ Len(calls) = 6
  /\ calls[1].op = "putObject"
  /\ calls[6].op = "createAlias"
  /\ calls[6].status = "ok"

\* C3: after a call of the run has failed, the run issues no further call,
\* signals failure and emits nothing; a failed putObject or listFunctions
\* leaves the functions and aliases of the account as they were.
C3_FailureShortCircuit ==
  \A i \in 1..Len(calls) :
    Failed(calls[i]) =>
      /\ i = Len(calls)
      /\ pc = "done"
      /\ Len(cbs) = 1
      /\ cbs[1] = gulpError(cbs[1].message)
      /\ cbs[1] # NoError
      /\ pushed = <<>>
      /\ calls[i].op \in {"putObject", "listFunctions"} =>
           lambdaFns = lambdaFns0 /\ aliases = aliases0

C3_Witness ==
  /\ Len(calls) = 4
  /\ calls[4].op = "createAlias"
  /\ Failed(calls[4])
  /\ lambdaFns # lambdaFns0

\* C4: a lookup that reports the function absent is followed by exactly one
\* createFunction and by no update call; a lookup that reports it present is
\* followed by no createFunction; no run issues both, and none issues either
\* before the lookup has answered.
C4_BranchExclusivity ==
  /\ hasFunction = Bool(FALSE) =>
       /\ Cardinality(CallsOf("createFunction")) = 1
       /\ ~Issued("updateFunctionConfiguration")
       /\ ~Issued("updateFunctionCode")
  /\ hasFunction = Bool(TRUE) => ~Issued("createFunction")
  /\ hasFunction = Undef =>
       /\ ~Issued("createFunction")
       /\ ~Issued("updateFunctionConfiguration")
       /\ ~Issued("updateFunctionCode")
  /\ ~(Issued("createFunction") /\
       (Issued("updateFunctionConfiguration") \/ Issued("updateFunctionCode")))

C4_Witness ==
  /\ hasFunction = Bool(FALSE)
  /\ \E i \in CallsOf("createFunction") : calls[i].status = "ok"
  /\ lambdaFns0 # <<>>


UpsertSucceeded ==
  \E i \in CallsOf("createFunction") \cup CallsOf("updateFunctionCode") :
    calls[i].status = "ok"

\* C5: with an alias declared and the function created or updated, one getAlias
\* is issued; a not-found answer is followed by one createAlias and no
\* updateAlias, a found answer by one updateAlias and no createAlias, any other
\* failure by neither.  Without an alias declared, or without a successful
\* create or update, no alias call is issued.
C5_AliasUpsert ==
  /\ Truthy(params.alias) /\ UpsertSucceeded =>
       /\ Cardinality(CallsOf("getAlias")) = 1
       /\ \A i \in CallsOf("getAlias") :
            /\ calls[i].status = "pending" =>
                 ~Issued("createAlias") /\ ~Issued("updateAlias")
            /\ IsNotFound(calls[i]) =>
                 /\ Cardinality(CallsOf("createAlias")) = 1
                 /\ ~Issued("updateAlias")
            /\ calls[i].status = "ok" =>
                 /\ Cardinality(CallsOf("updateAlias")) = 1
                 /\ ~Issued("createAlias")
            /\ Failed(calls[i]) =>
                 ~Issued("createAlias") /\ ~Issued("updateAlias")
  /\ ~(Truthy(params.alias) /\ UpsertSucceeded) =>
       \A op \in AliasOps : ~Issued(op)

C5_Witness ==
  /\ \E i \in CallsOf("getAlias") : IsNotFound(calls[i])
  /\ \E i \in CallsOf("createAlias") : calls[i].status = "ok"
  /\ aliases # aliases0

\* The code a createFunction or updateFunctionCode request carries.
CodeSent(c) ==
  IF c.op = "createFunction" THEN c.req.Code
  ELSE [S3Bucket |-> c.req.S3Bucket, S3Key |-> c.req.S3Key, ZipFile |-> c.req.ZipFile]

\* C6: a createFunction or updateFunctionCode request carries, if s3 is
\* configured, the bucket and key putObject was given in this run and no bytes,
\* and otherwise the bytes of the artifact and no bucket or key.
C6_CodeSourceExclusivity ==
  \A i \in CallsOf("createFunction") \cup CallsOf("updateFunctionCode") :
    IF HasS3(params)
    THEN /\ calls[1].op = "putObject"
         /\ CodeSent(calls[i]).S3Bucket = calls[1].req.Bucket
         /\ CodeSent(calls[i]).S3Key = calls[1].req.Key
         /\ CodeSent(calls[i]).S3Bucket.t = "str"
         /\ CodeSent(calls[i]).S3Key.t = "str"
         /\ CodeSent(calls[i]).ZipFile.t = "undef"
    ELSE /\ CodeSent(calls[i]).ZipFile = Str(received.contents)
         /\ CodeSent(calls[i]).S3Bucket.t = "undef"
         /\ CodeSent(calls[i]).S3Key.t = "undef"

C6_Witness ==
  /\ HasS3(params)
  /\ Issued("createFunction")
  /\ Issued("putObject")

\* A spec validation must reject: name or role missing, a staging block
\* without bucket or key, or an alias without publish being true.
InvalidSpec ==
  \/ params.t = "undef"
  \/ params.name.t = "undef"
  \/ params.role.t = "undef"
  \/ params.s3.t = "obj" /\ (params.s3.bucket.t = "undef" \/ params.s3.key.t = "undef")
  \/ params.alias.t = "str" /\ params.publish # Bool(TRUE)

\* C7: for such a spec module.exports throws, and no AWS call is ever made.
C7_ValidationFirst ==
  InvalidSpec =>
    /\ pc \in {"new", "thrown"}
    /\ pc = "thrown" => thrown # NoError
    /\ calls = <<>>
    /\ cbs = <<>>
    /\ aws = <<lambdaFns0, aliases0, {}>>

C7_Witness ==
  /\ pc = "thrown"
  /\ params.name.t = "str"
  /\ params.role.t = "str"
  /\ params.s3.t = "undef"
  /\ params.alias.t = "str"
  /\ params.publish = Bool(FALSE)
  /\ options = GoodOptions


TargetExists(fns) == \E i \in 1..Len(fns) : fns[i].FunctionName = params.name.v

\* C8: the existence check answers true exactly if a function with the target
\* name exists in the account, whatever the number of functions.
C8_LocatorCorrect ==
  hasFunction.t = "bool" => (hasFunction.v <=> TargetExists(lambdaFns0))

\* The existence check is right about every account whose functions fit in
\* one page of the listing.
C8_LocatorCorrectInOnePage ==
  hasFunction.t = "bool" /\ Len(lambdaFns0) <= PageSize =>
    (hasFunction.v <=> TargetExists(lambdaFns0))

Present(x) == x.t # "undef"

\* The function the run targets, as the account holds it.
Target(fns) == fns[IndexOfFunction(fns, params.name.v)]

\* C9: the configuration update carries role, handler and runtime, and of
\* memory, description, timeout and the VPC settings exactly those the spec
\* holds; a setting the spec does not hold keeps its value in the account.
C9_OptionalFieldsByPresence ==
  \A i \in CallsOf("updateFunctionConfiguration") :
    /\ calls[i].req.Role = params.role
    /\ Present(calls[i].req.Handler)
    /\ Present(calls[i].req.Runtime)
    /\ Present(calls[i].req.MemorySize) <=> Present(params.memory)
    /\ Present(calls[i].req.Description) <=> Present(params.description)
    /\ Present(calls[i].req.Timeout) <=> Present(params.timeout)
    /\ Present(calls[i].req.VpcConfig) <=>
         Present(params.subnets) /\ Present(params.securityGroups)
    /\ calls[i].status = "ok" =>
         /\ ~Present(params.memory) =>
              Target(lambdaFns).Config.MemorySize = Target(lambdaFns0).Config.MemorySize
         /\ ~Present(params.description) =>
              Target(lambdaFns).Config.Description = Target(lambdaFns0).Config.Description
         /\ ~Present(params.timeout) =>
              Target(lambdaFns).Config.Timeout = Target(lambdaFns0).Config.Timeout
         /\ ~Present(params.subnets) /\ ~Present(params.securityGroups) =>
              Target(lambdaFns).Config.VpcConfig = Target(lambdaFns0).Config.VpcConfig

\* What the code does: a setting is carried exactly if its value is truthy
\* (the VPC settings: if both are), and a setting not carried keeps its value.
C9_OptionalFieldsByTruthiness ==
  \A i \in CallsOf("updateFunctionConfiguration") :
    /\ calls[i].req.Role = params.role
    /\ Present(calls[i].req.Handler)
    /\ Present(calls[i].req.Runtime)
    /\ Present(calls[i].req.MemorySize) <=> Truthy(params.memory)
    /\ Present(calls[i].req.Description) <=> Truthy(params.description)
    /\ Present(calls[i].req.Timeout) <=> Truthy(params.timeout)
    /\ Present(calls[i].req.VpcConfig) <=>
         Truthy(params.subnets) /\ Truthy(params.securityGroups)
    /\ calls[i].status = "ok" =>
         /\ ~Truthy(params.memory) =>
              Target(lambdaFns).Config.MemorySize = Target(lambdaFns0).Config.MemorySize
         /\ ~Truthy(params.description) =>
              Target(lambdaFns).Config.Description = Target(lambdaFns0).Config.Description
         /\ ~Truthy(params.timeout) =>
              Target(lambdaFns).Config.Timeout = Target(lambdaFns0).Config.Timeout
         /\ ~(Truthy(params.subnets) /\ Truthy(params.securityGroups)) =>
              Target(lambdaFns).Config.VpcConfig = Target(lambdaFns0).Config.VpcConfig

\* The run went through every stage without a failure.
RunSucceeded ==
  /\ pc = "done"
  /\ calls # <<>>
  /\ \A i \in 1..Len(calls) : calls[i].status = "ok" \/ IsNotFound(calls[i])

\* C10: a run whose stages all succeed calls cb once, without an error, and
\* pushes the file flush found, and nothing else; a run that fails calls cb
\* once, with an error, and pushes nothing.  Before the end nothing is signalled.
C10_CompletionPassThrough ==
  /\ pc # "done" => cbs = <<>> /\ pushed = <<>>
  /\ pc = "done" => Len(cbs) = 1
  /\ RunSucceeded =>
       /\ cbs = <<NoError>>
       /\ received.t = "obj"
       /\ pushed = <<received>>
  /\ pc = "done" /\ ~RunSucceeded =>
       /\ cbs[1] # NoError
       /\ pushed = <<>>

C10_Witness ==
  /\ RunSucceeded
  /\ pushed = <<BufferFile(PathBZip, "c2")>>
  /\ Len(calls) = 6

\* The words of the messages the model's errors carry (message.includes(word)).
MessageWords(m) ==
  CASE m = "service failure" -> {"service", "failure"}
    [] m = "not found" -> {"not", "found"}
    [] m = "already exists" -> {"already", "exists"}
    [] m = "No code provided" -> {"No", "code", "provided"}
    [] m = "Given file is not a zip" -> {"Given", "file", "is", "not", "a", "zip"}
    [] OTHER -> {}

\* C11: when a remote call has failed and the run has ended, the error given to
\* cb names the stage that failed (the operation) and the resource involved
\* (the function name).
C11_ErrorContext ==
  \A i \in 1..Len(calls) :
    Failed(calls[i]) /\ pc = "done" =>
      /\ Len(cbs) = 1
      /\ calls[i].op \in MessageWords(cbs[1].message)
      /\ params.name.v \in MessageWords(cbs[1].message)

\* What done(err) does give cb after a failed call: the plugin's name and the
\* message of the service's error, nothing else.
C11_ErrorIsServiceMessage ==
  \A i \in 1..Len(calls) :
    Failed(calls[i]) /\ pc = "done" =>
      /\ cbs = << gulpError(cbs[1].message) >>
      /\ cbs[1].message \in {ServiceError.message, NotFoundError.message, ConflictError.message}

\* The run has been started: flush has been called.
Flushed == pc \notin {"new", "thrown", "ready"}

EndsWithZip(path) ==
  /\ Len(path) >= 4
  /\ SubSeq(path, Len(path) - 3, Len(path)) = <<".", "z", "i", "p">>

\* C12: a run whose artifact is missing, or has no bytes, or has a path that does
\* not end in '.zip', is rejected: cb gets one error, and no remote call is made.
C12_ArtifactValidation ==
  Flushed /\ (\/ received.t = "undef"
              \/ received.contents = ""
              \/ ~EndsWithZip(received.path)) =>
    /\ calls = <<>>
    /\ pc = "done"
    /\ Len(cbs) = 1
    /\ cbs[1].plugin = "gulp-lambda-deploy"
    /\ pushed = <<>>
    /\ aws = <<lambdaFns0, aliases0, {}>>

\* What flush does reject before any remote call: no file, or a path that does
\* not end in '.zip'.
C12_MissingOrNotZipRejected ==
  Flushed /\ (received.t = "undef" \/ ~EndsWithZip(received.path)) =>
    /\ calls = <<>>
    /\ pc = "done"
    /\ Len(cbs) = 1
    /\ cbs[1].message \in {"No code provided", "Given file is not a zip"}
    /\ pushed = <<>>
    /\ aws = <<lambdaFns0, aliases0, {}>>

\* The calls of the log that created the function or updated its code, and returned.
UpsertsDone ==
  { j \in 1..Len(calls) :
      calls[j].op \in {"createFunction", "updateFunctionCode"} /\ calls[j].status = "ok" }

\* The aliases of the account with the function name and the alias name of params.
TargetAliases ==
  { a \in aliases : a.FunctionName = params.name.v /\ a.Name = params.alias.v }

\* C13: the version a createAlias or updateAlias request names is the version the
\* run's one successful createFunction or updateFunctionCode returned, which is
\* the function's newest published version, not the data of the configuration
\* update; after a successful alias write the alias points at that version and
\* at no other, whatever it pointed at before.
C13_AliasTargetVersion ==
  \A i \in CallsOf("createAlias") \cup CallsOf("updateAlias") :
    /\ Cardinality(UpsertsDone) = 1
    /\ \A j \in UpsertsDone :
         /\ j < i
         /\ calls[i].req.FunctionVersion = calls[j].ver
         /\ calls[j].ver =
              Str(ToString(lambdaFns[IndexOfFunction(lambdaFns, params.name.v)].Versions))
         /\ calls[i].status = "ok" =>
              TargetAliases = { [FunctionName |-> params.name.v, Name |-> params.alias.v,
                                 FunctionVersion |-> calls[j].ver] }
    /\ \A j \in CallsOf("updateFunctionConfiguration") :
         calls[j].ver = Undef /\ calls[j].ver # calls[i].req.FunctionVersion

C13_Witness ==
  /\ pc = "done"
  /\ \E i \in CallsOf("updateAlias") :
       /\ calls[i].status = "ok"
       /\ calls[i].req.FunctionVersion = Str("2")
  /\ OldAlias(params.name.v) \in aliases0
  /\ OldAlias(params.name.v) \notin aliases

Operations ==
  {"putObject", "listFunctions", "createFunction", "updateFunctionConfiguration",
   "updateFunctionCode", "getAlias", "createAlias", "updateAlias"}

\* C14: in one run each remote operation is issued at most once, and a call that
\* failed is the last call of the run.
C14_NoRetries ==
  /\ \A op \in Operations : Cardinality(CallsOf(op)) <= 1
  /\ \A i \in 1..Len(calls) : calls[i].op \in Operations
  /\ \A i \in 1..Len(calls) : Failed(calls[i]) => i = Len(calls) /\ pc = "done"

C14_Witness ==
  /\ pc = "done"
  /\ Len(calls) = 1
  /\ calls[1].op = "putObject"
  /\ calls[1].status = "err"

\* The bytes a request of the log carries, the empty set when it carries none.
BytesOf(c) ==
  IF c.op = "putObject" THEN { c.req.Body }
  ELSE IF c.op = "updateFunctionCode" /\ c.req.ZipFile # Undef THEN { c.req.ZipFile }
  ELSE IF c.op = "createFunction" /\ c.req.Code.ZipFile # Undef THEN { c.req.Code.ZipFile }
  ELSE {}

\* C18: for the files written to one plugin stream, no remote call is issued and
\* nothing is signalled or emitted before flush; flush starts one run, on the last
\* file with contents that was written; the bytes the run sends are that file's;
\* cb is called once at most; a successful run emits that file and no other, a
\* failed run emits nothing.
C18_OneDeploymentPerStream ==
  /\ ~Flushed => calls = <<>> /\ cbs = <<>> /\ pushed = <<>> /\ aws = <<lambdaFns0, aliases0, {}>>
  /\ Flushed => received = lastWritten
  /\ \A i \in 1..Len(calls) : BytesOf(calls[i]) \subseteq { Str(lastWritten.contents) }
  /\ Cardinality(CallsOf("listFunctions")) <= 1
  /\ Len(cbs) <= 1
  /\ pc = "done" => Len(cbs) = 1
  /\ pushed = IF RunSucceeded THEN <<lastWritten>> ELSE <<>>

C18_Witness ==
  /\ RunSucceeded
  /\ prevWritten = BufferFile(PathAZip, "c1")
  /\ lastWritten = BufferFile(PathBZip, "c2")
  /\ pushed = <<BufferFile(PathBZip, "c2")>>
  /\ \E i \in CallsOf("createFunction") : calls[i].req.Code.ZipFile = Str("c2")

Outstanding == \E i \in 1..Len(calls) : calls[i].status = "pending"

\* C17: when every issued call is answered, a run that flush has started ends:
\* cb is called.  cb is called once, never while a call is outstanding, and after
\* it no call is issued and nothing more is signalled or emitted.
C17_Termination ==
  /\ Flushed ~> (pc = "done" /\ Len(cbs) = 1)
  /\ [](cbs # <<>> => pc = "done" /\ Len(cbs) = 1 /\ ~Outstanding)
  /\ [][pc = "done" => pc' = "done" /\ calls' = calls /\ cbs' = cbs /\ pushed' = pushed]_vars

C17_Witness ==
  /\ pc = "done"
  /\ Len(cbs) = 1
  /\ Len(calls) = 6
  /\ ~Outstanding

\* C16: while a run awaits the answer of a call, params.file is the file flush
\* found; every byte the run sends is that file's, and the file the run emits is
\* that file, with two plugin instances built from one params object too.
C16_NoMutationWhileSuspended ==
  /\ Outstanding => params.file = received
  /\ \A i \in 1..Len(calls) : BytesOf(calls[i]) \subseteq { Str(received.contents) }
  /\ pushed \in { <<>>, <<received>> }

\* The createFunction calls of a log that succeeded.
CreatesDone(log) ==
  { i \in 1..Len(log) : log[i].op = "createFunction" /\ log[i].status = "ok" }

\* A createFunction call of a log rejected because the function exists is the
\* last call of the log, and the run has ended in failure.
ConflictEnds(log, at, signals, emitted) ==
  \A i \in 1..Len(log) :
    log[i].op = "createFunction" /\ log[i].code = "ResourceConflictException" =>
      /\ i = Len(log)
      /\ at = "done"
      /\ signals = << gulpError(ConflictError.message) >>
      /\ emitted = <<>>

ListedOnce(log) == Cardinality({ i \in 1..Len(log) : log[i].op = "listFunctions" }) <= 1

\* C19: of two runs on the same function name, interleaved in any way against an
\* account that did not hold the function, each lists the functions once at most,
\* at most one createFunction succeeds, and a run whose createFunction is rejected
\* because the function exists ends in failure with that call its last.
C19_SingleExistenceSnapshot ==
  /\ ListedOnce(calls)
  /\ ListedOnce(other.calls)
  /\ Cardinality(CreatesDone(calls)) + Cardinality(CreatesDone(other.calls)) <= 1
  /\ ConflictEnds(calls, pc, cbs, pushed)
  /\ ConflictEnds(other.calls, other.pc, other.cbs, other.pushed)

C19_Witness ==
  /\ pc = "done"
  /\ other.pc = "done"
  /\ hasFunction = Bool(FALSE)
  /\ other.hasFunction = Bool(FALSE)
  /\ CreatesDone(other.calls) # {}
  /\ calls # <<>>
  /\ LastCall.op = "createFunction"
  /\ LastCall.code = "ResourceConflictException"
  /\ Len(cbs) = 1

\* The function of a listing with the name of params.
FunctionIn(fns) == fns[IndexOfFunction(fns, params.name.v)]

\* The first of two runs in sequence has ended with every call successful,
\* against an account that did not hold the function; the second run, on the
\* same file, has had the answer of its existence lookup.
SecondRunLocated ==
  /\ other.pc = "done"
  /\ other.calls # <<>>
  /\ \A i \in 1..Len(other.calls) : other.calls[i].status = "ok" \/ IsNotFound(other.calls[i])
  /\ IndexOfFunction(other.lambdaFns0, params.name.v) = 0
  /\ received = other.received
  /\ hasFunction # Undef

Idempotent ==
  /\ \E i \in 1..Len(other.calls) : other.calls[i].op = "createFunction"
  /\ \A i \in 1..Len(other.calls) :
       other.calls[i].op \notin {"updateFunctionConfiguration", "updateFunctionCode"}
  /\ hasFunction = Bool(TRUE)
  /\ ~Issued("createFunction")
  /\ RunSucceeded =>
       /\ Issued("updateFunctionConfiguration")
       /\ Issued("updateFunctionCode")
       /\ FunctionIn(lambdaFns).Config = FunctionIn(lambdaFns0).Config
       /\ FunctionIn(lambdaFns).Code = FunctionIn(lambdaFns0).Code

\* C15: the same spec and file run twice in sequence against an account that did
\* not hold the function: the first run creates the function, the second finds it
\* and updates it, and after the second run the function's configuration and code
\* are what they were after the first.
C15_IdempotentReconciliation == SecondRunLocated => Idempotent

\* The same, for an account whose functions all come in one page of the listing.
C15_IdempotentInOnePage ==
  SecondRunLocated /\ Len(lambdaFns0) <= PageSize => Idempotent

\* A second run that has ended successfully on the update path.
C15_SecondRunUpdated ==
  /\ SecondRunLocated
  /\ RunSucceeded
  /\ Issued("updateFunctionCode")

====
